---------------------------- MODULE Spec2Model ----------------------------
(***************************************************************************)
(* Model of src/src/common/cascading.service.ts: CascadingFieldsService    *)
(* (cascade map, affected-field resolution, option intersection, the       *)
(* performCascading / cascadeAll / resetAllCascades orchestration against  *)
(* the host work item form) and CascadeValidationService.                  *)
(*                                                                         *)
(* JavaScript objects are modelled as sequences of [k, v] entries in the   *)
(* object's own-property enumeration order.  A JavaScript value that is    *)
(* either a flag string, a list of strings or undefined is modelled as a   *)
(* record [kind, list].  One step of a model action is one continuation    *)
(* of the code: the code between two awaits, run when the awaited host     *)
(* call answers (the host executes the call and answers in that step).     *)
(***************************************************************************)
EXTENDS Integers, Sequences, FiniteSets, TLC

(***************************************************************************)
(* Bounds of the model.                                                    *)
(***************************************************************************)
\* passes of performCascading that may exist at once (cascadeAll needs one
\* per parent of the cascade map)
MaxPasses == 2
\* validateCascades calls on one validator instance
MaxCalls == 2

(***************************************************************************)
(* JavaScript values.                                                      *)
(***************************************************************************)
\* undefined / null / '' are all falsy: the empty field value
Empty == ""

\* `!fieldValue`
Falsy(v) == v = Empty

List(l) == [kind |-> "list", list |-> l]
\* FieldOptionsFlags.All
FieldOptionsFlagsAll == [kind |-> "All", list |-> << >>]
\* the text stored under a reserved key
Text == [kind |-> "text", list |-> << >>]
Undefined == [kind |-> "undefined", list |-> << >>]

\* keys of a Cascade Definition that are not field names
RESERVED_FIELD_NAMES == <<"hint">>

Range(s) == {s[i] : i \in 1..Len(s)}

\* Array.prototype.includes
Includes(s, x) == \E i \in 1..Len(s) : s[i] = x

\* Array.prototype.filter with the predicate given as the set of kept values
RECURSIVE FilterIn(_, _)
FilterIn(s, keep) ==
  IF s = << >> THEN << >>
  ELSE (IF Head(s) \in keep THEN <<Head(s)>> ELSE << >>) \o FilterIn(Tail(s), keep)

\* lodash uniq: the first occurrence of each value, in order
RECURSIVE uniq(_)
uniq(s) ==
  IF s = << >> THEN << >>
  ELSE LET r == uniq(SubSeq(s, 1, Len(s) - 1))
           x == s[Len(s)]
       IN IF Includes(r, x) THEN r ELSE Append(r, x)

\* lodash flatten (one level)
RECURSIVE flatten(_)
flatten(ss) == IF ss = << >> THEN << >> ELSE Head(ss) \o flatten(Tail(ss))

\* Object.keys / Object.values / hasOwnProperty / property read
ObjectKeys(o) == [i \in 1..Len(o) |-> o[i].k]
ObjectValues(o) == [i \in 1..Len(o) |-> o[i].v]
HasOwnProperty(o, key) == \E i \in 1..Len(o) : o[i].k = key
Prop(o, key) == o[CHOOSE i \in 1..Len(o) : o[i].k = key].v

\* the non-reserved keys of a Cascade Definition,
\* Object.keys(d).filter(field => !RESERVED_FIELD_NAMES.includes(field))
NonReservedKeys(d) ==
  LET ks == ObjectKeys(d)
  IN FilterIn(ks, Range(ks) \ Range(RESERVED_FIELD_NAMES))

(***************************************************************************)
(* CascadingFieldsService.createCascadingMap                               *)
(***************************************************************************)
\* lines 46-53 without line 49's filter of the reserved names
AltersOfUnfiltered(fieldValues) ==
  uniq(flatten([i \in 1..Len(fieldValues) |-> ObjectKeys(fieldValues[i].v)]))

\* alters of one parent: every non-reserved key of every definition, uniq'd
AltersOf(fieldValues) ==
  uniq(flatten([i \in 1..Len(fieldValues) |-> NonReservedKeys(fieldValues[i].v)]))

createCascadingMap(cascadeConfiguration) ==
  IF ~cascadeConfiguration.defined THEN << >>
  ELSE [i \in 1..Len(cascadeConfiguration.obj) |->
          [k |-> cascadeConfiguration.obj[i].k,
           v |-> [alters |-> AltersOf(cascadeConfiguration.obj[i].v),
                  cascades |-> cascadeConfiguration.obj[i].v]]]

(***************************************************************************)
(* CascadingFieldsService.getAffectedFields                                *)
(***************************************************************************)
\* getAffectedFields without line 70's filter of the reserved names
getAffectedFieldsUnfiltered(map, fieldReferenceName, fieldValue) ==
  LET cascades == Prop(map, fieldReferenceName).cascades
  IN IF Falsy(fieldValue)
       THEN uniq(flatten([i \in 1..Len(cascades) |-> ObjectKeys(cascades[i].v)]))
     ELSE IF HasOwnProperty(cascades, fieldValue)
       THEN NonReservedKeys(Prop(cascades, fieldValue))
     ELSE << >>

getAffectedFields(map, fieldReferenceName, fieldValue) ==
  LET cascades == Prop(map, fieldReferenceName).cascades
  IN IF Falsy(fieldValue)
       THEN LET keys == uniq(flatten([i \in 1..Len(cascades) |-> ObjectKeys(cascades[i].v)]))
            IN FilterIn(keys, Range(keys) \ Range(RESERVED_FIELD_NAMES))
     ELSE IF HasOwnProperty(cascades, fieldValue)
       THEN NonReservedKeys(Prop(cascades, fieldValue))
     ELSE << >>


(***************************************************************************)
(* The form and the configurations the model runs on.                      *)
(***************************************************************************)
E(key, val) == [k |-> key, v |-> val]

\* the fields of the work item form: two pickers that configurations use as
\* parents, two dependent pickers, and a field no configuration names
Fields == {"P1", "P2", "F", "G", "T"}

\* IWorkItemFormService.getAllowedFieldValues: the schema's allowed values
Schema(f) ==
  CASE f = "P1" -> <<"x", "y">>
    [] f = "P2" -> <<"x", "y">>
    [] f = "F"  -> <<"a", "b", "c", "d">>
    [] f = "G"  -> <<"a", "b">>
    [] OTHER    -> << >>

\* the values the user gives a field: none, or one of the schema's (for F
\* one that every explicit list but one holds and one that only one holds)
UserValues(f) ==
  CASE f = "F" -> {Empty, "b", "d"}
    [] f = "G" -> {Empty, "a"}
    [] OTHER   -> {Empty} \cup Range(Schema(f))

\* spec.md section 8: one parent, an explicit list and the "All" flag
CfgOneParent ==
  [defined |-> TRUE, obj |-> <<
     E("P1", << E("x", << E("F", List(<<"a", "b">>)) >>),
                E("y", << E("F", FieldOptionsFlagsAll) >>) >>) >>]

\* two parents that alter F; P2 = y has a definition that does not list F,
\* P1 = y has no definition
CfgTwoParents ==
  [defined |-> TRUE, obj |-> <<
     E("P1", << E("x", << E("F", List(<<"a", "b", "c">>)) >>) >>),
     E("P2", << E("x", << E("F", List(<<"c", "b", "d">>)) >>),
                E("y", << E("hint", Text), E("G", FieldOptionsFlagsAll) >>) >>) >>]

\* definitions with a reserved key and with their keys in different orders
CfgReserved ==
  [defined |-> TRUE, obj |-> <<
     E("P1", << E("x", << E("hint", Text), E("F", List(<<"a">>)),
                          E("G", List(<<"a", "b">>)) >>),
                E("y", << E("G", List(<<"b">>)), E("F", List(<<"b", "c">>)) >>) >>) >>]

\* `typeof cascadeConfiguration === 'undefined'`
CfgUndefined == [defined |-> FALSE, obj |-> << >>]

Configurations == {CfgOneParent, CfgTwoParents, CfgReserved, CfgUndefined}

(***************************************************************************)
(* State.                                                                  *)
(***************************************************************************)
VARIABLES
  configuration,        \* the constructor's cascadeConfiguration argument
  cascadeMap,           \* CascadingFieldsService.cascadeMap
  value,                \* host: the current value of each field
  filtered,             \* host: the filtered allowed values of each field
  error,                \* host: the form's error message, << >> when clear
  hintEnabled,          \* HintService's enabled flag
  passes,               \* the performCascading calls, by slot
  cascadeAllOp,         \* the cascadeAll call
  reset,                \* the resetAllCascades call
  cachedFields,         \* CascadeValidationService.cachedFields
  calls,                \* the validateCascades calls, by slot
  fetches               \* remote: the catalogs getFields has served, in order

svcVars == <<configuration, cascadeMap>>
hostVars == <<value, filtered, error>>
opVars == <<hintEnabled, passes, cascadeAllOp, reset>>
validatorVars == <<cachedFields, calls, fetches>>
vars == <<configuration, cascadeMap, value, filtered, error, hintEnabled,
          passes, cascadeAllOp, reset, cachedFields, calls, fetches>>

PassIds == 1..MaxPasses

NoError == << >>
\* `Field '${fieldReferenceName}' value is invalid`
InvalidMessage(fieldReferenceName) == <<"Field '", fieldReferenceName, "' value is invalid">>

NoCalls == [getFieldValue |-> 0, clearError |-> 0, hintFieldValue |-> 0,
            getAllowedFieldValues |-> 0, filterAllowedFieldValues |-> 0,
            getFilteredAllowedFieldValues |-> 0, setError |-> 0]

\* a slot no performCascading call uses
FreePass ==
  [pc |-> "free", owner |-> "none", field |-> Empty, changedFieldValue |-> Empty,
   affectedFields |-> << >>, tasks |-> << >>, fieldValues |-> << >>, idx |-> 0,
   allowedValues |-> Undefined, validations |-> << >>,
   hinted |-> "no", hintFailed |-> FALSE, thrown |-> FALSE, rejected |-> "none",
   calls |-> NoCalls, before |-> [f \in Fields |-> Undefined]]


(***************************************************************************)
(* CascadingFieldsService.prepareCascadeOptions: the per-(field, parent)   *)
(* tasks and the accumulator fieldValues.                                  *)
(***************************************************************************)
\* value.toString() of an allowed value; the model's picklist values are
\* strings, and String.prototype.toString returns the string
toString(v) == v

\* lodash intersection of two arguments: the unique values of the first
\* array that the second holds; an argument that is no array counts as []
intersection(a, b) ==
  IF a.kind # "list" \/ b.kind # "list" THEN List(<< >>)
  ELSE List(uniq(FilterIn(a.list, Range(b.list))))

\* lines 125-129 with the accumulator overwritten instead of intersected
AccumulateLastWins(fieldValues, field, cascadeOptions) ==
  IF HasOwnProperty(fieldValues, field)
    THEN [i \in 1..Len(fieldValues) |->
            IF fieldValues[i].k = field THEN E(field, cascadeOptions) ELSE fieldValues[i]]
    ELSE Append(fieldValues, E(field, cascadeOptions))

\* lines 125-129: intersect into the accumulator, or seed it
Accumulate(fieldValues, field, cascadeOptions) ==
  IF HasOwnProperty(fieldValues, field)
    THEN [i \in 1..Len(fieldValues) |->
            IF fieldValues[i].k = field
              THEN E(field, intersection(fieldValues[i].v, cascadeOptions))
              ELSE fieldValues[i]]
    ELSE Append(fieldValues, E(field, cascadeOptions))

\* lines 113-117 without the test for the "All" flag
UsesAllowedValuesIfEmpty(cascade, field, fieldValue) == Falsy(fieldValue)

\* lines 113-117: whether the schema's allowed values are fetched
UsesAllowedValues(cascade, field, fieldValue) ==
  \/ Falsy(fieldValue)
  \/ /\ HasOwnProperty(cascade.cascades, fieldValue)
     /\ HasOwnProperty(Prop(cascade.cascades, fieldValue), field)
     /\ Prop(Prop(cascade.cascades, fieldValue), field) = FieldOptionsFlagsAll

\* line 122: cascade.cascades[fieldValue][field], undefined when the
\* definition does not list the field (a missing definition throws before)
ExplicitOptions(cascade, field, fieldValue) ==
  LET definition == Prop(cascade.cascades, fieldValue)
  IN IF HasOwnProperty(definition, field) THEN Prop(definition, field) ELSE Undefined

\* lines 107-110: one task per affected field and entry of the cascade map;
\* a task whose parent does not alter the field ends at once, the others
\* have called getFieldValue
NewTasks(map, affectedFields) ==
  flatten([i \in 1..Len(affectedFields) |->
    [j \in 1..Len(map) |->
       [field |-> affectedFields[i], alterField |-> map[j].k,
        pc |-> IF Includes(map[j].v.alters, affectedFields[i]) THEN "read" ELSE "done"]]])

TasksDone(tasks) == \A t \in 1..Len(tasks) : tasks[t].pc = "done"
TasksSettled(tasks) == \A t \in 1..Len(tasks) : tasks[t].pc \in {"done", "thrown"}

\* line 163: the loop over Object.entries(fieldValues) starts (its first
\* filterAllowedFieldValues is called), or ends at once when there are none
EnterLoop(pass) ==
  IF pass.fieldValues = << >> THEN [pass EXCEPT !.pc = "done"]
  ELSE [pass EXCEPT !.pc = "filter", !.idx = 1]

\* a task of prepareCascadeOptions has ended without throwing: when it was
\* the last one, Promise.all resolves and performCascading goes on
AfterTask(pass) ==
  IF pass.pc = "options" /\ TasksDone(pass.tasks) THEN EnterLoop(pass) ELSE pass

(***************************************************************************)
(* The operations in flight.                                               *)
(***************************************************************************)
Bump(pass, call) == [pass EXCEPT !.calls[call] = @ + 1]

Terminal(pass) == pass.pc \in {"free", "done", "failed"} /\ TasksSettled(pass.tasks)

\* no operation of the service is in flight
Idle ==
  /\ \A p \in PassIds : Terminal(passes[p])
  /\ cascadeAllOp.pc # "waiting"
  /\ reset.pc # "running"

\* cascadeAll's Promise.all over its passes: it rejects with the first pass
\* that fails, and when the last pass ends it resolves and cascadeAll goes
\* on to line 145, hintService.setEnabled(false)
Commit(p, np) ==
  /\ passes' = [passes EXCEPT ![p] = np]
  /\ IF np.owner = "cascadeAll" /\ cascadeAllOp.pc = "waiting"
          /\ np.pc = "failed" /\ passes[p].pc # "failed"
       THEN /\ cascadeAllOp' = [cascadeAllOp EXCEPT !.pc = "failed"]
            /\ UNCHANGED hintEnabled
     ELSE IF np.owner = "cascadeAll" /\ cascadeAllOp.pc = "waiting" /\ np.pc = "done"
          /\ \A q \in cascadeAllOp.passes \ {p} : passes[q].pc = "done"
       THEN /\ cascadeAllOp' = [cascadeAllOp EXCEPT !.pc = "done"]
            /\ hintEnabled' = FALSE
     ELSE UNCHANGED <<cascadeAllOp, hintEnabled>>

\* line 148: performCascading is called and calls getFieldValue
NewPass(field, owner) ==
  [FreePass EXCEPT !.pc = "getValue", !.owner = owner, !.field = field,
                   !.before = filtered]


(***************************************************************************)
(* CascadingFieldsService.performCascading, one action per continuation.   *)
(***************************************************************************)
\* lines 149-153: getFieldValue answers; clearError is called
GetChangedValue(p) ==
  /\ passes[p].pc = "getValue"
  /\ Commit(p, [Bump(passes[p], "getFieldValue") EXCEPT
                  !.changedFieldValue = value[passes[p].field],
                  !.pc = "clearError"])
  /\ UNCHANGED <<svcVars, hostVars, reset, validatorVars>>

\* lines 153-159 without line 155's test: every field goes on to the hint
ClearErrorAlwaysHints(p) ==
  /\ passes[p].pc = "clearError"
  /\ error' = NoError
  /\ Commit(p, [Bump(passes[p], "clearError") EXCEPT !.pc = "hint"])
  /\ UNCHANGED <<svcVars, value, filtered, reset, validatorVars>>

\* lines 153-159: clearError answers; a field that is no parent ends the
\* pass, a parent calls hintFieldValue
ClearError(p) ==
  /\ passes[p].pc = "clearError"
  /\ error' = NoError
  /\ Commit(p, [Bump(passes[p], "clearError") EXCEPT
                  !.pc = IF HasOwnProperty(cascadeMap, passes[p].field)
                           THEN "hint" ELSE "done"])
  /\ UNCHANGED <<svcVars, value, filtered, reset, validatorVars>>

\* lines 159-163: hintFieldValue answers (rejected: the await throws and
\* performCascading rejects); the affected fields are resolved and the
\* tasks of prepareCascadeOptions start
AfterHint(pass, ok) ==
  LET hinted == [Bump(pass, "hintFieldValue") EXCEPT
                   !.hinted = IF hintEnabled THEN "enabled" ELSE "disabled"]
      affectedFields == getAffectedFields(cascadeMap, pass.field, pass.changedFieldValue)
  IN IF ~ok THEN [hinted EXCEPT !.pc = "failed", !.hintFailed = TRUE]
     ELSE AfterTask([hinted EXCEPT !.pc = "options",
                                   !.affectedFields = affectedFields,
                                   !.tasks = NewTasks(cascadeMap, affectedFields)])

HintAnswers(p) ==
  /\ passes[p].pc = "hint"
  /\ \E ok \in BOOLEAN : Commit(p, AfterHint(passes[p], ok))
  /\ UNCHANGED <<svcVars, hostVars, reset, validatorVars>>

\* lines 111-129: a task's getFieldValue answers.  It calls
\* getAllowedFieldValues, or takes the explicit options and accumulates
\* them; reading cascades[fieldValue][field] of a missing definition throws
\* a TypeError, which rejects prepareCascadeOptions and performCascading
AfterTaskRead(pass, t) ==
  LET task == pass.tasks[t]
      cascade == Prop(cascadeMap, task.alterField)
      fieldValue == value[task.alterField]
      read == Bump(pass, "getFieldValue")
  IN IF UsesAllowedValues(cascade, task.field, fieldValue)
       THEN [read EXCEPT !.tasks[t].pc = "fetch"]
     ELSE IF ~HasOwnProperty(cascade.cascades, fieldValue)
       THEN [read EXCEPT !.tasks[t].pc = "thrown", !.pc = "failed", !.thrown = TRUE]
     ELSE AfterTask([read EXCEPT
            !.tasks[t].pc = "done",
            !.fieldValues = Accumulate(@, task.field,
                                       ExplicitOptions(cascade, task.field, fieldValue))])

TaskReadAnswers(p) ==
  /\ passes[p].pc \in {"options", "failed"}
  /\ \E t \in 1..Len(passes[p].tasks) :
       /\ passes[p].tasks[t].pc = "read"
       /\ Commit(p, AfterTaskRead(passes[p], t))
  /\ UNCHANGED <<svcVars, hostVars, reset, validatorVars>>

\* lines 118-129: a task's getAllowedFieldValues answers
AllowedValues(field) ==
  List([i \in 1..Len(Schema(field)) |-> toString(Schema(field)[i])])

AfterTaskFetch(pass, t) ==
  LET field == pass.tasks[t].field
      cascadeOptions == AllowedValues(field)
  IN AfterTask([Bump(pass, "getAllowedFieldValues") EXCEPT
       !.tasks[t].pc = "done",
       !.fieldValues = Accumulate(@, field, cascadeOptions)])

TaskFetchAnswers(p) ==
  /\ passes[p].pc \in {"options", "failed"}
  /\ \E t \in 1..Len(passes[p].tasks) :
       /\ passes[p].tasks[t].pc = "fetch"
       /\ Commit(p, AfterTaskFetch(passes[p], t))
  /\ UNCHANGED <<svcVars, hostVars, reset, validatorVars>>

\* lines 164-165, 82: filterAllowedFieldValues answers; validateFilter calls
\* getFilteredAllowedFieldValues
FilterAnswers(p) ==
  LET entry == passes[p].fieldValues[passes[p].idx]
  IN /\ passes[p].pc = "filter"
     /\ filtered' = [filtered EXCEPT ![entry.k] = entry.v]
     /\ Commit(p, [Bump(passes[p], "filterAllowedFieldValues") EXCEPT !.pc = "getFiltered"])
     /\ UNCHANGED <<svcVars, value, error, reset, validatorVars>>

\* lines 82-84: getFilteredAllowedFieldValues answers; getFieldValue is called
GetFilteredAnswers(p) ==
  LET entry == passes[p].fieldValues[passes[p].idx]
  IN /\ passes[p].pc = "getFiltered"
     /\ Commit(p, [Bump(passes[p], "getFilteredAllowedFieldValues") EXCEPT
                     !.allowedValues = filtered[entry.k], !.pc = "validate"])
     /\ UNCHANGED <<svcVars, hostVars, reset, validatorVars>>

\* line 85 without the test for an empty value
IsValidIfIncluded(allowedValues, fieldValue) ==
  Includes(allowedValues.list, fieldValue)

\* line 85: !fieldValue || allowedValues.includes(fieldValue)
IsValid(allowedValues, fieldValue) ==
  Falsy(fieldValue) \/ Includes(allowedValues.list, fieldValue)

\* lines 84-85, 165-170: validateFilter's getFieldValue answers; an invalid
\* field calls setError, a valid one lets the loop go on.  includes of a
\* value that is no array throws a TypeError.  validations keeps what each
\* validateFilter call read: the field, its allowedValues and its fieldValue
AfterValidate(pass) ==
  LET fieldReferenceName == pass.fieldValues[pass.idx].k
      fieldValue == value[fieldReferenceName]
      read == [Bump(pass, "getFieldValue") EXCEPT
                 !.validations = Append(@, [field |-> fieldReferenceName,
                                            allowedValues |-> pass.allowedValues,
                                            fieldValue |-> fieldValue])]
  IN IF ~Falsy(fieldValue) /\ pass.allowedValues.kind # "list"
       THEN [read EXCEPT !.pc = "failed", !.thrown = TRUE]
     ELSE IF ~IsValid(pass.allowedValues, fieldValue)
       THEN [read EXCEPT !.pc = "setError"]
     ELSE IF pass.idx < Len(pass.fieldValues)
       THEN [read EXCEPT !.pc = "filter", !.idx = @ + 1]
     ELSE [read EXCEPT !.pc = "done"]

ValidateAnswers(p) ==
  /\ passes[p].pc = "validate"
  /\ Commit(p, AfterValidate(passes[p]))
  /\ UNCHANGED <<svcVars, hostVars, reset, validatorVars>>

\* lines 167-168 without the break: the loop goes on to the next field
SetErrorNoBreak(p) ==
  /\ passes[p].pc = "setError"
  /\ error' = InvalidMessage(passes[p].fieldValues[passes[p].idx].k)
  /\ Commit(p, IF passes[p].idx < Len(passes[p].fieldValues)
                 THEN [Bump(passes[p], "setError") EXCEPT !.pc = "filter", !.idx = @ + 1]
                 ELSE [Bump(passes[p], "setError") EXCEPT !.pc = "done"])
  /\ UNCHANGED <<svcVars, value, filtered, reset, validatorVars>>

\* lines 167-168: setError answers; break
SetErrorAnswers(p) ==
  /\ passes[p].pc = "setError"
  /\ error' = InvalidMessage(passes[p].fieldValues[passes[p].idx].k)
  /\ Commit(p, [Bump(passes[p], "setError") EXCEPT !.pc = "done"])
  /\ UNCHANGED <<svcVars, value, filtered, reset, validatorVars>>

PassStep(p) ==
  \/ GetChangedValue(p)
  \/ ClearError(p)
  \/ HintAnswers(p)
  \/ TaskReadAnswers(p)
  \/ TaskFetchAnswers(p)
  \/ FilterAnswers(p)
  \/ GetFilteredAnswers(p)
  \/ ValidateAnswers(p)
  \/ SetErrorAnswers(p)

\* the host call performCascading awaits at each of its continuations
Awaited ==
  [getValue |-> "getFieldValue", clearError |-> "clearError",
   filter |-> "filterAllowedFieldValues",
   getFiltered |-> "getFilteredAllowedFieldValues",
   validate |-> "getFieldValue", setError |-> "setError"]

\* a rejected host call that also puts back the filters the pass found
HostCallRejectsRestores(p) ==
  /\ passes[p].pc \in DOMAIN Awaited
  /\ filtered' = passes[p].before
  /\ Commit(p, [Bump(passes[p], Awaited[passes[p].pc]) EXCEPT
                  !.pc = "failed", !.rejected = Awaited[passes[p].pc]])
  /\ UNCHANGED <<svcVars, value, error, reset, validatorVars>>

\* lines 149-168: the host call performCascading awaits rejects; the await
\* throws, nothing catches it, and performCascading rejects.  The host has
\* not done what the call asked for
HostCallRejects(p) ==
  /\ passes[p].pc \in DOMAIN Awaited
  /\ Commit(p, [Bump(passes[p], Awaited[passes[p].pc]) EXCEPT
                  !.pc = "failed", !.rejected = Awaited[passes[p].pc]])
  /\ UNCHANGED <<svcVars, hostVars, reset, validatorVars>>

\* lines 111, 118: the host call a task of prepareCascadeOptions awaits
\* rejects; the task rejects, and Promise.all (line 109) rejects with the
\* first task that does, which rejects performCascading at line 161 while
\* the other tasks go on
TaskCallRejects(p) ==
  /\ passes[p].pc \in {"options", "failed"}
  /\ \E t \in 1..Len(passes[p].tasks) :
       /\ passes[p].tasks[t].pc \in {"read", "fetch"}
       /\ LET call == IF passes[p].tasks[t].pc = "read"
                        THEN "getFieldValue" ELSE "getAllowedFieldValues"
          IN Commit(p, [Bump(passes[p], call) EXCEPT
                          !.tasks[t].pc = "thrown", !.pc = "failed",
                          !.rejected = IF passes[p].pc = "failed" THEN @ ELSE call])
  /\ UNCHANGED <<svcVars, hostVars, reset, validatorVars>>


(***************************************************************************)
(* Calls of the service's public operations.                               *)
(***************************************************************************)
\* the records of the calls that have ended are dropped at the next event
Recycle(pass) == IF Terminal(pass) THEN FreePass ELSE pass

NoCascadeAll == [pc |-> "idle", passes |-> {}, hintBefore |-> TRUE]
NoReset == [pc |-> "idle", tasks |-> << >>, before |-> [f \in Fields |-> Undefined],
            hintBefore |-> TRUE]
RecycleCascadeAll == IF cascadeAllOp.pc = "waiting" THEN cascadeAllOp ELSE NoCascadeAll
RecycleReset == IF reset.pc = "running" THEN reset ELSE NoReset

FreeSlots == {p \in PassIds : Terminal(passes[p])}

\* performCascading(changedFieldReferenceName) is called (line 148)
StartPerformCascading(changedFieldReferenceName) ==
  /\ FreeSlots # {}
  /\ LET slot == CHOOSE p \in FreeSlots : \A q \in FreeSlots : p <= q
     IN passes' = [p \in PassIds |->
                     IF p = slot THEN NewPass(changedFieldReferenceName, "caller")
                     ELSE Recycle(passes[p])]
  /\ cascadeAllOp' = RecycleCascadeAll
  /\ reset' = RecycleReset
  /\ UNCHANGED <<svcVars, hostVars, hintEnabled, validatorVars>>

\* lines 139-145 with setEnabled(false) moved before the passes are awaited
StartCascadeAllDisablesFirst ==
  LET n == Len(cascadeMap)
  IN /\ cascadeAllOp.pc # "waiting"
     /\ n <= MaxPasses
     /\ \A p \in 1..n : p \in FreeSlots
     /\ passes' = [p \in PassIds |->
                     IF p <= n THEN NewPass(cascadeMap[p].k, "cascadeAll")
                     ELSE Recycle(passes[p])]
     /\ cascadeAllOp' = [pc |-> IF n = 0 THEN "done" ELSE "waiting", passes |-> 1..n,
                          hintBefore |-> hintEnabled]
     /\ hintEnabled' = FALSE
     /\ reset' = RecycleReset
     /\ UNCHANGED <<svcVars, hostVars, validatorVars>>

\* cascadeAll is called (lines 139-142): one performCascading per key of the
\* cascade map; with no key, Promise.all resolves and line 145 runs
StartCascadeAll ==
  LET n == Len(cascadeMap)
  IN /\ cascadeAllOp.pc # "waiting"
     /\ n <= MaxPasses
     /\ \A p \in 1..n : p \in FreeSlots
     /\ passes' = [p \in PassIds |->
                     IF p <= n THEN NewPass(cascadeMap[p].k, "cascadeAll")
                     ELSE Recycle(passes[p])]
     /\ cascadeAllOp' = [pc |-> IF n = 0 THEN "done" ELSE "waiting", passes |-> 1..n,
                          hintBefore |-> hintEnabled]
     /\ hintEnabled' = IF n = 0 THEN FALSE ELSE hintEnabled
     /\ reset' = RecycleReset
     /\ UNCHANGED <<svcVars, hostVars, validatorVars>>

\* line 93 taking the alters of the first parent only
FieldsToResetFirstParent(map) == IF map = << >> THEN << >> ELSE map[1].v.alters

\* line 93-94: the fields of every alters list, once each
FieldsToReset(map) == uniq(flatten([i \in 1..Len(map) |-> map[i].v.alters]))

\* resetAllCascades is called (lines 88-97): hinting is enabled and every
\* field to reset calls getAllowedFieldValues
StartResetAllCascades ==
  LET fields == FieldsToReset(cascadeMap)
  IN /\ reset.pc # "running"
     /\ hintEnabled' = TRUE
     /\ reset' = [pc |-> IF fields = << >> THEN "done" ELSE "running",
                  tasks |-> [i \in 1..Len(fields) |->
                               [field |-> fields[i], pc |-> "fetch", values |-> Undefined]],
                  before |-> filtered, hintBefore |-> hintEnabled]
     /\ passes' = [p \in PassIds |-> Recycle(passes[p])]
     /\ cascadeAllOp' = RecycleCascadeAll
     /\ UNCHANGED <<svcVars, hostVars, validatorVars>>

\* line 97-98: getAllowedFieldValues answers; filterAllowedFieldValues is called
ResetFetchAnswers ==
  /\ reset.pc = "running"
  /\ \E t \in 1..Len(reset.tasks) :
       /\ reset.tasks[t].pc = "fetch"
       /\ reset' = [reset EXCEPT !.tasks[t].pc = "filter",
                                 !.tasks[t].values = List(Schema(reset.tasks[t].field))]
  /\ UNCHANGED <<svcVars, hostVars, hintEnabled, passes, cascadeAllOp, validatorVars>>

\* line 98: filterAllowedFieldValues answers; with the last one Promise.all resolves
ResetFilterAnswers ==
  /\ reset.pc = "running"
  /\ \E t \in 1..Len(reset.tasks) :
       /\ reset.tasks[t].pc = "filter"
       /\ filtered' = [filtered EXCEPT ![reset.tasks[t].field] = reset.tasks[t].values]
       /\ reset' = [reset EXCEPT
            !.tasks[t].pc = "done",
            !.pc = IF \A u \in 1..Len(reset.tasks) : u = t \/ reset.tasks[u].pc = "done"
                     THEN "done" ELSE "running"]
  /\ UNCHANGED <<svcVars, value, error, hintEnabled, passes, cascadeAllOp, validatorVars>>

\* the user changes the value of a field on the form
EditField ==
  /\ \E f \in Fields : \E v \in UserValues(f) :
       /\ v # value[f]
       /\ value' = [value EXCEPT ![f] = v]
  /\ passes' = [p \in PassIds |-> Recycle(passes[p])]
  /\ cascadeAllOp' = RecycleCascadeAll
  /\ reset' = RecycleReset
  /\ UNCHANGED <<svcVars, filtered, error, hintEnabled, validatorVars>>

\* the user changes the value of a field and performCascading is called for
\* that field (line 148)
ChangeField(changedFieldReferenceName) ==
  /\ \E v \in UserValues(changedFieldReferenceName) :
       /\ v # value[changedFieldReferenceName]
       /\ value' = [value EXCEPT ![changedFieldReferenceName] = v]
  /\ FreeSlots # {}
  /\ LET slot == CHOOSE p \in FreeSlots : \A q \in FreeSlots : p <= q
     IN passes' = [p \in PassIds |->
                     IF p = slot THEN NewPass(changedFieldReferenceName, "caller")
                     ELSE Recycle(passes[p])]
  /\ cascadeAllOp' = RecycleCascadeAll
  /\ reset' = RecycleReset
  /\ UNCHANGED <<svcVars, filtered, error, hintEnabled, validatorVars>>


(***************************************************************************)
(* CascadeValidationService.validateCascades                               *)
(***************************************************************************)
CallIds == 1..MaxCalls

\* the catalogs the remote metadata service may serve for the project
\* (the reference names of its fields); the schema may change between fetches
Catalogs == {<<"P1", "P2", "F", "G", "T">>, <<"P1", "F", "T">>}

\* a configuration that names fields no catalog holds, one of them twice,
\* and has a parent named like a reserved key
CfgUnknown ==
  [defined |-> TRUE, obj |-> <<
     E("N1", << E("x", << E("F", List(<<"a">>)), E("N2", List(<<"a">>)), E("hint", Text) >>),
                E("y", << E("N2", FieldOptionsFlagsAll), E("G", List(<<"a">>)) >>) >>),
     E("P2", << E("x", << E("N3", List(<<"b">>)), E("F", List(<<"b">>)) >>) >>),
     E("hint", << E("x", << E("G", List(<<"a">>)) >>) >>) >>]

ValidatedConfigurations == {CfgOneParent, CfgTwoParents, CfgReserved, CfgUnknown}

Null == [kind |-> "null", list |-> << >>]

NoCall == [pc |-> "free", cascades |-> CfgUndefined, fieldList |-> << >>, result |-> Undefined]

\* lines 192-210 without line 201's test of the reserved names
InvalidFieldsReservedChecked(cascades, fieldList) ==
  LET NotListed(names) == FilterIn(names, Range(names) \ Range(fieldList))
      root == NotListed(ObjectKeys(cascades.obj))
      inner == flatten([i \in 1..Len(cascades.obj) |->
                 flatten([j \in 1..Len(cascades.obj[i].v) |->
                    NotListed(ObjectKeys(cascades.obj[i].v[j].v))])])
      invalidFieldsTotal == root \o inner
  IN IF Len(invalidFieldsTotal) > 0 THEN List(invalidFieldsTotal) ELSE Null

\* lines 192-210: the invalid names of a configuration against fieldList
\* (the reference names of cachedFields), or null
InvalidFields(cascades, fieldList) ==
  LET NotListed(names) == FilterIn(names, Range(names) \ Range(fieldList))
      root == NotListed(ObjectKeys(cascades.obj))
      inner == flatten([i \in 1..Len(cascades.obj) |->
                 flatten([j \in 1..Len(cascades.obj[i].v) |->
                    NotListed(NonReservedKeys(cascades.obj[i].v[j].v))])])
      invalidFieldsTotal == root \o inner
  IN IF Len(invalidFieldsTotal) > 0 THEN List(invalidFieldsTotal) ELSE Null

\* validateCascades(cascades) is called (line 181-182): SDK.getService is awaited
StartValidateCascades(c) ==
  /\ calls[c].pc \in {"free", "done"}
  /\ \A d \in CallIds : d < c => calls[d].pc # "free"
  /\ \E cascades \in ValidatedConfigurations :
       calls' = [calls EXCEPT ![c] = [NoCall EXCEPT !.pc = "getService",
                                                    !.cascades = cascades]]
  /\ UNCHANGED <<svcVars, hostVars, opVars, cachedFields, fetches>>

\* line 185: getService answers; getProject is awaited
GetServiceAnswers(c) ==
  /\ calls[c].pc = "getService"
  /\ calls' = [calls EXCEPT ![c].pc = "getProject"]
  /\ UNCHANGED <<svcVars, hostVars, opVars, cachedFields, fetches>>

\* lines 187-210 with the catalog cached: the result is computed
Validated(call) ==
  [call EXCEPT !.pc = "done",
               !.fieldList = cachedFields'.list,
               !.result = InvalidFields(call.cascades, cachedFields'.list)]

\* lines 185-188: getProject answers; with no cached catalog getClient is
\* awaited, otherwise the call validates against the cached one
GetProjectAnswers(c) ==
  /\ calls[c].pc = "getProject"
  /\ UNCHANGED cachedFields
  /\ calls' = [calls EXCEPT ![c] = IF cachedFields = Undefined
                                     THEN [@ EXCEPT !.pc = "getClient"]
                                     ELSE Validated(@)]
  /\ UNCHANGED <<svcVars, hostVars, opVars, fetches>>

\* lines 188-189: getClient answers; getFields is awaited
GetClientAnswers(c) ==
  /\ calls[c].pc = "getClient"
  /\ calls' = [calls EXCEPT ![c].pc = "getFields"]
  /\ UNCHANGED <<svcVars, hostVars, opVars, cachedFields, fetches>>

\* lines 189-210: getFields answers with the project's catalog, which is
\* cached, and the call validates against cachedFields
GetFieldsAnswers(c) ==
  /\ calls[c].pc = "getFields"
  /\ \E fields \in Catalogs :
       /\ fetches' = Append(fetches, fields)
       /\ cachedFields' = List(fields)
  /\ calls' = [calls EXCEPT ![c] = Validated(@)]
  /\ UNCHANGED <<svcVars, hostVars, opVars>>

(***************************************************************************)
(* Specifications.                                                         *)
(***************************************************************************)
\* the state after the constructors: the cascade map is built, no filter is
\* applied (the filtered allowed values are the schema's), hinting is on
InitService(configurations, values) ==
  /\ configuration \in configurations
  /\ cascadeMap = createCascadingMap(configuration)
  /\ value \in values
  /\ filtered = [f \in Fields |-> List(Schema(f))]
  /\ error = NoError
  /\ hintEnabled = TRUE
  /\ passes = [p \in PassIds |-> FreePass]
  /\ cascadeAllOp = NoCascadeAll
  /\ reset = NoReset

InitValidator ==
  /\ cachedFields = Undefined
  /\ calls = [c \in CallIds |-> NoCall]
  /\ fetches = << >>

\* a new work item: no field holds a value
NewWorkItem == [f \in Fields |-> Empty]

Init == InitService(Configurations, {NewWorkItem}) /\ InitValidator

\* the form's events, one at a time: the user edits a field and the
\* extension's handlers call the service, each call running to its end
\* before the next event
Next ==
  \/ Idle /\ EditField
  \/ Idle /\ \E f \in Fields : StartPerformCascading(f)
  \/ Idle /\ StartCascadeAll
  \/ Idle /\ StartResetAllCascades
  \/ \E p \in PassIds : PassStep(p)
  \/ ResetFetchAnswers
  \/ ResetFilterAnswers

Spec == Init /\ [][Next]_vars

\* the validator alone, its calls overlapping freely
InitValidation == InitService({CfgUndefined}, {NewWorkItem}) /\ InitValidator

NextValidation ==
  \E c \in CallIds :
    \/ StartValidateCascades(c)
    \/ GetServiceAnswers(c)
    \/ GetProjectAnswers(c)
    \/ GetClientAnswers(c)
    \/ GetFieldsAnswers(c)

SpecValidation == InitValidation /\ [][NextValidation]_vars


(***************************************************************************)
(* The affected-field resolver over a family of configurations.            *)
(***************************************************************************)
\* Cascade Definitions: explicit lists, the "All" flag, reserved keys first,
\* last and alone, keys in both orders, and the empty definition
Definitions ==
  { << E("F", List(<<"a">>)) >>,
    << E("hint", Text), E("G", FieldOptionsFlagsAll) >>,
    << E("G", List(<<"b">>)), E("F", FieldOptionsFlagsAll), E("hint", Text) >>,
    << E("hint", Text) >>,
    << >> }

\* Cascade Rule Sets: no value, a definition for x, definitions for x and y
RuleSets ==
  {<< >>} \cup {<< E("x", d) >> : d \in Definitions}
          \cup {<< E("x", d), E("y", e) >> : d \in Definitions, e \in Definitions}

FamilyConfigurations ==
  {[defined |-> TRUE, obj |-> << E("P1", r) >>] : r \in RuleSets}
    \cup {[defined |-> TRUE, obj |-> << E("P1", r), E("P2", q) >>] :
            r \in RuleSets, q \in RuleSets}

\* a work item as loaded: the parents hold any value, the other fields none
ParentValues ==
  {[f \in Fields |-> IF f = "P1" THEN u ELSE IF f = "P2" THEN w ELSE Empty] :
     u \in UserValues("P1"), w \in UserValues("P2")}

InitResolve == InitService(FamilyConfigurations, ParentValues) /\ InitValidator

\* performCascading calls, followed until the affected fields are resolved
NextResolve ==
  \/ Idle /\ \E f \in Fields : StartPerformCascading(f)
  \/ \E p \in PassIds : GetChangedValue(p) \/ ClearError(p) \/ HintAnswers(p)

SpecResolve == InitResolve /\ [][NextResolve]_vars

\* The service over a host whose calls may reject: the operations are
\* performCascading calls made one after another.
InitRejections == InitService({CfgTwoParents, CfgReserved}, {NewWorkItem}) /\ InitValidator

NextRejections ==
  \/ Idle /\ EditField
  \/ Idle /\ \E f \in Fields : StartPerformCascading(f)
  \/ \E p \in PassIds : PassStep(p)
  \/ \E p \in PassIds : HostCallRejects(p)
  \/ \E p \in PassIds : TaskCallRejects(p)

SpecRejections == InitRejections /\ [][NextRejections]_vars

\* The service on a form whose parents the user changes one at a time, each
\* change followed by its performCascading call, which ends before the next
\* change; the changes stop with the first call that fails or sets an error.
DependentValues ==
  {v \in [Fields -> {Empty, "a", "b"}] :
     /\ \A f \in Fields : v[f] \in UserValues(f)
     /\ \A f \in {"P1", "P2", "T"} : v[f] = Empty}

InitChanges == InitService(Configurations, DependentValues) /\ InitValidator

Clean == \A p \in PassIds : passes[p].pc \in {"free", "done"} /\ passes[p].calls.setError = 0

NextChanges ==
  \/ Idle /\ Clean /\ \E i \in 1..Len(cascadeMap) : ChangeField(cascadeMap[i].k)
  \/ \E p \in PassIds : PassStep(p)

SpecChanges == InitChanges /\ [][NextChanges]_vars

\* The service on a form whose parent the user changes while the passes of
\* earlier changes are still running.
InitOverlap ==
  InitService({CfgOneParent}, {NewWorkItem, [NewWorkItem EXCEPT !["F"] = "d"]}) /\ InitValidator

NextOverlap ==
  \/ \E i \in 1..Len(cascadeMap) : ChangeField(cascadeMap[i].k)
  \/ \E p \in PassIds : PassStep(p)

SpecOverlap == InitOverlap /\ [][NextOverlap]_vars


(***************************************************************************)
(* Claims.                                                                 *)
(***************************************************************************)
Reserved == Range(RESERVED_FIELD_NAMES)
KeySet(o) == {o[i].k : i \in 1..Len(o)}
NoDuplicates(s) == Cardinality(Range(s)) = Len(s)

\* the affected fields have been resolved in this pass (line 160 has run)
Resolved(pass) == pass.calls.hintFieldValue = 1 /\ ~pass.hintFailed

\* the Cascade Rule Set the configuration gives a parent
RuleSetOf(parent) == Prop(configuration.obj, parent)

\* what section 4.2 says of a parent and a value, over the configuration
ExpectedAffected(parent, v) ==
  LET rules == RuleSetOf(parent)
  IN IF v = Empty
       THEN UNION {KeySet(rules[i].v) \ Reserved : i \in 1..Len(rules)}
     ELSE IF \E i \in 1..Len(rules) : rules[i].k = v
       THEN KeySet(rules[CHOOSE i \in 1..Len(rules) : rules[i].k = v].v) \ Reserved
     ELSE {}

\* the values getAffectedFields is asked about: none, the values that may
\* have a definition, and one that never has
ProbeValues == {Empty, "x", "y", "q"}

\* C1: for every parent P of the cascade map and every value v,
\* getAffectedFields(P, v) is duplicate-free and holds: for an empty v, the
\* non-reserved keys of all of P's Cascade Definitions; for a v with a
\* definition, the non-reserved keys of that definition; for any other v,
\* nothing.  The same holds of the affected fields each pass resolved.
C1_AffectedFields ==
  /\ \A i \in 1..Len(cascadeMap) : \A v \in ProbeValues :
       LET affected == getAffectedFields(cascadeMap, cascadeMap[i].k, v)
       IN /\ Range(affected) = ExpectedAffected(cascadeMap[i].k, v)
          /\ NoDuplicates(affected)
  /\ \A p \in PassIds :
       Resolved(passes[p]) =>
         /\ Range(passes[p].affectedFields)
              = ExpectedAffected(passes[p].field, passes[p].changedFieldValue)
         /\ NoDuplicates(passes[p].affectedFields)

\* a pass resolved the affected fields of a parent with no value whose
\* definitions share a key and hold a reserved key
C1_Witness ==
  \E p \in PassIds :
    /\ Resolved(passes[p])
    /\ passes[p].changedFieldValue = Empty
    /\ Len(passes[p].affectedFields) = 2
    /\ LET rules == RuleSetOf(passes[p].field)
       IN /\ Len(rules) = 2
          /\ KeySet(rules[1].v) \cap KeySet(rules[2].v) \cap {"F", "G"} # {}
          /\ \E i \in 1..2 : "hint" \in KeySet(rules[i].v)

\* C2: no reserved key is in any parent's alters list, and no reserved key
\* is a key of the Field Options a pass accumulates or returns.
C2_NoReservedKeys ==
  /\ \A i \in 1..Len(cascadeMap) : Range(cascadeMap[i].v.alters) \cap Reserved = {}
  /\ \A p \in PassIds : KeySet(passes[p].fieldValues) \cap Reserved = {}

\* prepareCascadeOptions has returned Field Options in a pass whose parent's
\* definition for the value read holds a reserved key
C2_Witness ==
  \E p \in PassIds :
    /\ passes[p].pc = "filter"
    /\ passes[p].fieldValues # << >>
    /\ passes[p].changedFieldValue # Empty
    /\ HasOwnProperty(RuleSetOf(passes[p].field), passes[p].changedFieldValue)
    /\ "hint" \in KeySet(Prop(RuleSetOf(passes[p].field), passes[p].changedFieldValue))


\* prepareCascadeOptions has returned in this pass (line 161 has run)
OptionsReturned(pass) == Resolved(pass) /\ TasksDone(pass.tasks)

\* the parents (entries of the cascade map) whose alters holds a field
ParentsOf(field) == {i \in 1..Len(cascadeMap) : Includes(cascadeMap[i].v.alters, field)}

\* what the task of a field and a parent accumulates, the parent's value
\* being the form's
Contribution(field, i) ==
  IF UsesAllowedValues(cascadeMap[i].v, field, value[cascadeMap[i].k])
    THEN AllowedValues(field)
    ELSE ExplicitOptions(cascadeMap[i].v, field, value[cascadeMap[i].k])

\* the accumulator of a field after its tasks have completed in an order
RECURSIVE InOrder(_, _)
InOrder(field, order) ==
  IF order = << >> THEN << >>
  ELSE Accumulate(InOrder(field, SubSeq(order, 1, Len(order) - 1)), field,
                  Contribution(field, order[Len(order)]))

\* the orders in which the tasks of a field's parents can complete
Orders(field) ==
  {order \in [1..Cardinality(ParentsOf(field)) -> ParentsOf(field)] :
     \A i, j \in DOMAIN order : i # j => order[i] # order[j]}

SameOptions(a, b) == a.kind = b.kind /\ Range(a.list) = Range(b.list)

\* C3: with the parents' values fixed, whatever the order in which the
\* tasks of a prepareCascadeOptions call completed their host reads, the
\* set of values accumulated for each affected field is the one every
\* completion order of that field's tasks accumulates.
C3_OrderIndependent ==
  \A p \in PassIds :
    OptionsReturned(passes[p]) =>
      \A e \in Range(passes[p].fieldValues) :
        \A order \in Orders(e.k) :
          SameOptions(e.v, Prop(InOrder(e.k, order), e.k))

\* prepareCascadeOptions returned the list <<c, b>> for F, which only P2's
\* task completing before P1's accumulates (P1's before P2's gives <<b, c>>)
C3_Witness ==
  \E p \in PassIds :
    /\ OptionsReturned(passes[p])
    /\ configuration = CfgTwoParents
    /\ value["P1"] = "x" /\ value["P2"] = "x"
    /\ HasOwnProperty(passes[p].fieldValues, "F")
    /\ Prop(passes[p].fieldValues, "F") = List(<<"c", "b">>)
    /\ Prop(InOrder("F", <<1, 2>>), "F") = List(<<"b", "c">>)

\* the constraint section 4.3 gives a field under a parent of the
\* configuration whose value is empty or has a definition listing the field
Constrains(parent, field) == field \in ExpectedAffected(parent, Empty)

InForce(parent, field) ==
  \/ value[parent] = Empty
  \/ /\ HasOwnProperty(RuleSetOf(parent), value[parent])
     /\ field \in KeySet(Prop(RuleSetOf(parent), value[parent]))

ConstraintSet(parent, field) ==
  IF value[parent] = Empty THEN Range(Schema(field))
  ELSE LET entry == Prop(Prop(RuleSetOf(parent), value[parent]), field)
       IN IF entry.kind = "All" THEN Range(Schema(field)) ELSE Range(entry.list)

ConfiguredParents == IF configuration.defined THEN KeySet(configuration.obj) ELSE {}

ExpectedOptions(field) ==
  {x \in Range(Schema(field)) \cup {"q"} :
     \A parent \in ConfiguredParents :
       Constrains(parent, field) => x \in ConstraintSet(parent, field)}

\* C4: when every parent whose alters holds F has an empty value or a value
\* whose definition lists F, the options prepareCascadeOptions returns for F
\* are a list holding exactly the values that are, for every such parent,
\* in the schema's allowed values of F (empty value or "All") or in the
\* explicit list cascades[value][F]; a single parent with an explicit list
\* gives that list itself.
C4_Intersection ==
  \A p \in PassIds :
    OptionsReturned(passes[p]) =>
      \A e \in Range(passes[p].fieldValues) :
        (\A parent \in ConfiguredParents : Constrains(parent, e.k) => InForce(parent, e.k))
          => /\ e.v.kind = "list"
             /\ Range(e.v.list) = ExpectedOptions(e.k)
             /\ \A parent \in ConfiguredParents :
                  ( /\ \A other \in ConfiguredParents : Constrains(other, e.k) <=> other = parent
                    /\ value[parent] # Empty
                    /\ Prop(Prop(RuleSetOf(parent), value[parent]), e.k).kind = "list" )
                  => e.v = Prop(Prop(RuleSetOf(parent), value[parent]), e.k)

\* two parents with the lists {a, b, c} and {c, b, d} for F: {b, c}
C4_Witness ==
  \E p \in PassIds :
    /\ OptionsReturned(passes[p])
    /\ configuration = CfgTwoParents
    /\ value["P1"] = "x" /\ value["P2"] = "x"
    /\ HasOwnProperty(passes[p].fieldValues, "F")
    /\ Range(Prop(passes[p].fieldValues, "F").list) = {"b", "c"}
    /\ passes[p].pc = "done"


\* the fields of the configuration's alters lists
AlteredFields == UNION {ExpectedAffected(parent, Empty) : parent \in ConfiguredParents}

\* a call on its own, not one of cascadeAll's
Alone(pass) == pass.owner = "caller"

\* C5: performCascading on a field that is no parent of the cascade map
\* reads that field's value once, clears the error once and stops: it never
\* hints, fetches allowed values, filters, validates or sets an error, and
\* every field's filtered allowed values stay as they were.
C5_NotAParent ==
  \A p \in PassIds :
    (passes[p].pc # "free" /\ ~HasOwnProperty(cascadeMap, passes[p].field)) =>
      /\ passes[p].pc \in {"getValue", "clearError", "done"}
      /\ passes[p].calls.getFieldValue = (IF passes[p].pc = "getValue" THEN 0 ELSE 1)
      /\ passes[p].calls.clearError = (IF passes[p].pc = "done" THEN 1 ELSE 0)
      /\ \A c \in DOMAIN NoCalls \ {"getFieldValue", "clearError"} : passes[p].calls[c] = 0
      /\ passes[p].tasks = << >> /\ passes[p].fieldValues = << >>
      /\ filtered = passes[p].before
      /\ passes[p].pc = "done" => error = NoError

\* a pass on F, which another field's configuration alters and which has a
\* filter in place, has ended
C5_Witness ==
  \E p \in PassIds :
    /\ passes[p].pc = "done"
    /\ passes[p].field = "F"
    /\ "F" \in AlteredFields
    /\ filtered["F"] # List(Schema("F"))

\* field i of the pass's Field Options holds a value its filtered allowed
\* values do not
InvalidField(pass, i) ==
  LET f == pass.fieldValues[i].k
  IN value[f] # Empty /\ value[f] \notin Range(filtered[f].list)

\* C6: in a pass run on its own, when the value of a field is non-empty and
\* not in its filtered allowed values once its filter is applied, the pass
\* ends with the error naming that field, that field is the last one it
\* filtered and validated, and every later field of the Field Options keeps
\* the filter it had before the pass.
C6_StopsAtFirstInvalid ==
  \A p \in PassIds :
    (Alone(passes[p]) /\ OptionsReturned(passes[p]) /\ passes[p].pc = "done") =>
      \A i \in 1..Len(passes[p].fieldValues) :
        (i <= passes[p].calls.filterAllowedFieldValues /\ InvalidField(passes[p], i)) =>
          /\ error = InvalidMessage(passes[p].fieldValues[i].k)
          /\ passes[p].calls.setError = 1
          /\ passes[p].calls.filterAllowedFieldValues = i
          /\ passes[p].calls.getFilteredAllowedFieldValues = i
          /\ \A j \in (i + 1)..Len(passes[p].fieldValues) :
               filtered[passes[p].fieldValues[j].k]
                 = passes[p].before[passes[p].fieldValues[j].k]

\* a pass ended at the first of two fields, and the second field's filter is
\* not the one the pass had computed for it
C6_Witness ==
  \E p \in PassIds :
    /\ Alone(passes[p]) /\ passes[p].pc = "done"
    /\ Len(passes[p].fieldValues) = 2
    /\ passes[p].calls.filterAllowedFieldValues = 1
    /\ InvalidField(passes[p], 1)
    /\ error = InvalidMessage(passes[p].fieldValues[1].k)
    /\ filtered[passes[p].fieldValues[2].k] # passes[p].fieldValues[2].v

\* C7: when resetAllCascades completes, hinting is enabled, the fields it
\* filtered are exactly the fields of the alters lists, each of them has the
\* schema's allowed values as its filtered allowed values, and every other
\* field has the filter it had.
C7_ResetRestores ==
  reset.pc = "done" =>
    /\ hintEnabled
    /\ {reset.tasks[t].field : t \in 1..Len(reset.tasks)} = AlteredFields
    /\ NoDuplicates([t \in 1..Len(reset.tasks) |-> reset.tasks[t].field])
    /\ \A f \in Fields :
         filtered[f] = IF f \in AlteredFields THEN List(Schema(f)) ELSE reset.before[f]

\* resetAllCascades completed after hinting had been disabled and F had
\* been restricted
C7_Witness ==
  /\ reset.pc = "done"
  /\ ~reset.hintBefore
  /\ reset.before["F"] # List(Schema("F"))
  /\ Cardinality(AlteredFields) = 2


\* every name a configuration uses as a field, in the order validateCascades
\* meets it: the top-level keys, then the keys of each nested definition
Occurrences(cascades) ==
  [i \in 1..Len(cascades.obj) |-> [name |-> cascades.obj[i].k, nested |-> FALSE]]
    \o flatten([i \in 1..Len(cascades.obj) |->
         flatten([j \in 1..Len(cascades.obj[i].v) |->
            [k \in 1..Len(cascades.obj[i].v[j].v) |->
               [name |-> cascades.obj[i].v[j].v[k].k, nested |-> TRUE]]])])

\* an occurrence that has to be a reference name of the catalog and is not
Offends(o, catalog) ==
  /\ ~(o.nested /\ o.name \in Reserved)
  /\ o.name \notin Range(catalog)

Offenders(cascades, catalog) ==
  LET occ == Occurrences(cascades)
      Test(o) == Offends(o, catalog)
      hit == SelectSeq(occ, Test)
  IN [i \in 1..Len(hit) |-> hit[i].name]

\* C8: validateCascades returns null exactly when every top-level key and
\* every non-reserved nested key of the configuration is a reference name of
\* the catalog it validated against; otherwise it returns the non-empty list
\* of the offending names, top-level ones first, one per occurrence.
C8_Validate ==
  \A c \in CallIds :
    calls[c].pc = "done" =>
      LET occ == Occurrences(calls[c].cascades)
          valid == \A i \in 1..Len(occ) : ~Offends(occ[i], calls[c].fieldList)
      IN /\ calls[c].result = Null <=> valid
         /\ ~valid => /\ calls[c].result.kind = "list"
                      /\ calls[c].result.list # << >>
                      /\ calls[c].result.list = Offenders(calls[c].cascades, calls[c].fieldList)

\* a call returned a list that names a top-level and a nested offender, one
\* of them twice, for a configuration that holds a nested reserved key
C8_Witness ==
  \E c \in CallIds :
    /\ calls[c].pc = "done"
    /\ calls[c].cascades = CfgUnknown
    /\ calls[c].result.kind = "list"
    /\ ~NoDuplicates(calls[c].result.list)
    /\ calls[c].result.list[1] = "N1"
    /\ "hint" \in Range(calls[c].result.list)

\* C9 (the claim as stated): a pass whose hintFieldValue failed is not
\* aborted by it.
C9_HintFailureDoesNotAbort ==
  \A p \in PassIds : passes[p].hintFailed => passes[p].pc # "failed"

\* C10 (the claim as stated): one validator instance fetches the catalog at
\* most once, and every call that has ended validated against the catalog
\* that first fetch served.
C10_FetchedOnce ==
  /\ Len(fetches) <= 1
  /\ \A c \in CallIds : calls[c].pc = "done" => calls[c].fieldList = fetches[1]


(***************************************************************************)
(* prepareCascadeOptions: failures and the shape of the result.            *)
(***************************************************************************)
\* C11 (the claim as stated): prepareCascadeOptions never fails, whatever
\* the configuration and the parents' values, and what it returns holds a
\* defined collection for every affected field and no other key.
C11_OptionsNeverFail ==
  \A p \in PassIds :
    Resolved(passes[p]) =>
      /\ \A t \in 1..Len(passes[p].tasks) : passes[p].tasks[t].pc # "thrown"
      /\ TasksDone(passes[p].tasks) =>
           /\ KeySet(passes[p].fieldValues) = Range(passes[p].affectedFields)
           /\ \A i \in 1..Len(passes[p].fieldValues) :
                passes[p].fieldValues[i].v.kind = "list"



(***************************************************************************)
(* cascadeAll: the passes of the parents and their tasks, interleaved.     *)
(***************************************************************************)
\* the fields a pass has applied a filter to
FilteredBy(pass) == {pass.fieldValues[i].k : i \in 1..pass.calls.filterAllowedFieldValues}

\* the Field Options of the pass of the cascade map's entry i when its tasks
\* complete in the order they were created, the parents' values being the
\* form's: the affected fields in their order
SequentialOptions(i) ==
  LET affected == getAffectedFields(cascadeMap, cascadeMap[i].k, value[cascadeMap[i].k])
      created(field) == FilterIn([j \in 1..Len(cascadeMap) |-> j], ParentsOf(field))
  IN [j \in 1..Len(affected) |->
        E(affected[j], Prop(InOrder(affected[j], created(affected[j])), affected[j]))]

\* the entries of those Field Options that pass filters: all of them up to
\* the first whose field holds a value that is not among its options
SequentialFiltered(i) ==
  LET options == SequentialOptions(i)
      invalid == {j \in 1..Len(options) :
                    /\ value[options[j].k] # Empty
                    /\ value[options[j].k] \notin Range(options[j].v.list)}
  IN {options[j] : j \in {k \in 1..Len(options) : \A l \in invalid : k <= l}}

\* C12 (the claim as stated): when cascadeAll has completed, the fields its
\* passes filtered and the filtered allowed values of each are those of the
\* run in which the passes and their tasks complete one after another, so
\* they are the same for every interleaving.
C12_InterleavingIndependent ==
  cascadeAllOp.pc = "done" =>
    LET sequential == UNION {SequentialFiltered(i) : i \in 1..Len(cascadeMap)}
    IN /\ UNION {FilteredBy(passes[p]) : p \in cascadeAllOp.passes}
            = {e.k : e \in sequential}
       /\ \A e \in sequential : SameOptions(filtered[e.k], e.v)



\* the state of hinting when a pass called hintFieldValue, as a flag
HintedWith(enabled) == IF enabled THEN "enabled" ELSE "disabled"

\* C13: while cascadeAll waits for its passes hinting is in the state it had
\* when cascadeAll was called, and every pass of it that has called
\* hintFieldValue did so in that state; when cascadeAll has completed every
\* pass of it has ended and hinting is disabled; and hinting, once disabled,
\* is enabled again only by a call of resetAllCascades.
C13_HintingDisabledLast ==
  /\ [](cascadeAllOp.pc # "idle" =>
          /\ cascadeAllOp.pc = "waiting" => hintEnabled = cascadeAllOp.hintBefore
          /\ \A p \in cascadeAllOp.passes :
               passes[p].hinted \in {"no", HintedWith(cascadeAllOp.hintBefore)}
          /\ cascadeAllOp.pc = "done" =>
               /\ ~hintEnabled
               /\ \A p \in cascadeAllOp.passes : passes[p].pc = "done")
  /\ [][(~hintEnabled /\ hintEnabled') =>
          (reset.pc # "running" /\ reset'.pc \in {"running", "done"})]_vars

\* cascadeAll, called with hinting enabled, has completed: its two passes
\* called hintFieldValue with hinting enabled, and hinting is now disabled
C13_Witness ==
  /\ cascadeAllOp.pc = "done"
  /\ cascadeAllOp.hintBefore
  /\ cascadeAllOp.passes = {1, 2}
  /\ \A p \in cascadeAllOp.passes : passes[p].hinted = "enabled" /\ Resolved(passes[p])
  /\ ~hintEnabled



(***************************************************************************)
(* performCascading: what a pass has done when it ends.                    *)
(***************************************************************************)
\* what a validateFilter call read does not pass line 85
Invalid(validation) ==
  /\ validation.fieldValue # Empty
  /\ validation.fieldValue \notin Range(validation.allowedValues.list)

\* C14: a pass that has completed without calling setError has filtered
\* every field of its Field Options, each to the set computed for it (the
\* very list, in a pass run on its own), has read that set back from the
\* host, and has read for each field a value that is empty or in that set;
\* and a pass calls setError only for the field it validated last, whose
\* value read was non-empty and not in the filtered set read.
C14_FilteredAndValid ==
  \A p \in PassIds :
    LET pass == passes[p]
        n == Len(pass.validations)
    IN /\ (pass.pc = "done" /\ OptionsReturned(pass) /\ pass.calls.setError = 0) =>
            /\ pass.calls.filterAllowedFieldValues = Len(pass.fieldValues)
            /\ n = Len(pass.fieldValues)
            /\ \A i \in 1..n :
                 /\ pass.validations[i].field = pass.fieldValues[i].k
                 /\ SameOptions(pass.validations[i].allowedValues, pass.fieldValues[i].v)
                 /\ SameOptions(filtered[pass.fieldValues[i].k], pass.fieldValues[i].v)
                 /\ Alone(pass) =>
                      /\ pass.validations[i].allowedValues = pass.fieldValues[i].v
                      /\ filtered[pass.fieldValues[i].k] = pass.fieldValues[i].v
                 /\ ~Invalid(pass.validations[i])
       /\ (pass.pc = "setError" \/ pass.calls.setError > 0) =>
            /\ n = pass.idx
            /\ pass.validations[n].field = pass.fieldValues[n].k
            /\ Invalid(pass.validations[n])
            /\ \A i \in 1..(n - 1) : ~Invalid(pass.validations[i])
            /\ (Alone(pass) /\ pass.pc = "done") =>
                 error = InvalidMessage(pass.validations[n].field)

\* a pass run on its own has completed without an error after restricting
\* two fields, one of which holds a value
C14_Witness ==
  \E p \in PassIds :
    /\ passes[p].pc = "done" /\ Alone(passes[p]) /\ OptionsReturned(passes[p])
    /\ passes[p].calls.setError = 0
    /\ Len(passes[p].validations) = 2
    /\ \E i \in 1..2 : passes[p].validations[i].fieldValue # Empty
    /\ \A i \in 1..2 : filtered[passes[p].fieldValues[i].k]
                         # passes[p].before[passes[p].fieldValues[i].k]



(***************************************************************************)
(* performCascading over a host whose calls may reject.                    *)
(***************************************************************************)
\* the fields whose filter a pass applied: a rejected
\* filterAllowedFieldValues call applied none
Applied(pass) ==
  LET n == IF pass.rejected = "filterAllowedFieldValues"
             THEN pass.calls.filterAllowedFieldValues - 1
             ELSE pass.calls.filterAllowedFieldValues
  IN {pass.fieldValues[i] : i \in 1..n}

\* a pass a host call of which rejected has failed, and of the filters it
\* found it has replaced those it applied and no other
FailedInPlace(pass) ==
  pass.rejected # "none" =>
    /\ pass.pc = "failed"
    /\ \A e \in Applied(pass) : filtered[e.k] = e.v
    /\ \A f \in Fields \ {e.k : e \in Applied(pass)} : filtered[f] = pass.before[f]

\* the number of host calls a pass has made: those that have answered and
\* those it or its tasks await
CallsMade(pass) ==
  pass.calls.getFieldValue + pass.calls.clearError + pass.calls.hintFieldValue
    + pass.calls.getAllowedFieldValues + pass.calls.filterAllowedFieldValues
    + pass.calls.getFilteredAllowedFieldValues + pass.calls.setError
    + (IF pass.pc \in DOMAIN Awaited \cup {"hint"} THEN 1 ELSE 0)
    + Cardinality({t \in 1..Len(pass.tasks) : pass.tasks[t].pc \in {"read", "fetch"}})

\* C15 (the claim as stated): a pass a host call of which rejected has
\* failed, makes no further host call, and has put no filter back.
C15_NoCallAfterRejection ==
  /\ [](\A p \in PassIds : FailedInPlace(passes[p]))
  /\ [][\A p \in PassIds :
          (passes[p].rejected # "none" /\ passes'[p].rejected # "none") =>
            CallsMade(passes'[p]) = CallsMade(passes[p])]_vars

\* C15 (amended): a pass a host call of which rejected has failed and has
\* put no filter back: the fields it filtered before keep that filter and
\* every other filter is as the pass found it.  From then on the only host
\* call it makes is the getAllowedFieldValues of a task of
\* prepareCascadeOptions whose getFieldValue was awaited when the call
\* rejected; no filter and no error changes.
C15_RejectionEndsPass ==
  /\ [](\A p \in PassIds : FailedInPlace(passes[p]))
  /\ [][\A p \in PassIds :
          (passes[p].rejected # "none" /\ passes'[p].rejected # "none") =>
            /\ \A c \in DOMAIN NoCalls \ {"getFieldValue", "getAllowedFieldValues"} :
                 passes'[p].calls[c] = passes[p].calls[c]
            /\ passes'[p].pc = "failed"
            /\ CallsMade(passes'[p]) # CallsMade(passes[p]) =>
                 \E t \in 1..Len(passes[p].tasks) :
                   /\ passes[p].tasks[t].pc = "read"
                   /\ passes'[p].tasks[t].pc = "fetch"
                   /\ CallsMade(passes'[p]) = CallsMade(passes[p]) + 1
            /\ filtered' = filtered /\ error' = error]_vars

\* the second filterAllowedFieldValues call of a pass rejected: the first
\* field keeps the filter the pass gave it, which is not the one it had
C15_Witness ==
  \E p \in PassIds :
    /\ passes[p].rejected = "filterAllowedFieldValues"
    /\ passes[p].idx = 2
    /\ filtered[passes[p].fieldValues[1].k] = passes[p].fieldValues[1].v
    /\ filtered[passes[p].fieldValues[1].k] # passes[p].before[passes[p].fieldValues[1].k]



(***************************************************************************)
(* cascadeAll: the error of the form.                                      *)
(***************************************************************************)
\* C16 (the claim as stated): when cascadeAll has completed and one of its
\* passes found an invalid field and set the error, the form's error is set:
\* no other pass's clearError has erased it.
C16_ErrorSurvives ==
  (cascadeAllOp.pc = "done" /\ \E p \in cascadeAllOp.passes : passes[p].calls.setError > 0)
    => error # NoError



(***************************************************************************)
(* Parent changes, each followed by a pass.                                *)
(***************************************************************************)
\* the explicit lists that restrict a field now: for every parent whose
\* value has a definition that lists the field with a list, that list
Restrictions(field) ==
  {Range(Prop(Prop(RuleSetOf(parent), value[parent]), field).list) :
     parent \in {q \in ConfiguredParents :
                   /\ HasOwnProperty(RuleSetOf(q), value[q])
                   /\ HasOwnProperty(Prop(RuleSetOf(q), value[q]), field)
                   /\ Prop(Prop(RuleSetOf(q), value[q]), field).kind = "list"}}

\* their intersection, and the schema's allowed values when there is none
InForceNow(field) ==
  IF Restrictions(field) = {} THEN Range(Schema(field))
  ELSE {x \in UNION Restrictions(field) : \A r \in Restrictions(field) : x \in r}

\* C17 (the claim as stated): after parent changes each followed by a pass
\* for the changed parent that ran to completion and set no error, the
\* filtered allowed values of every dependent field are the intersection of
\* the restrictions the parents' current values put on it, and the schema's
\* allowed values when none restricts it.
C17_FiltersFollowValues ==
  (Idle /\ Clean) =>
    \A f \in AlteredFields :
      filtered[f].kind = "list" /\ Range(filtered[f].list) = InForceNow(f)



(***************************************************************************)
(* Overlapping passes of one parent.                                       *)
(***************************************************************************)
\* C18 (the claim as stated): when two passes of a parent that overlapped
\* have both completed, neither with an error, every field the definition of
\* the parent's value lists has the filter computed from that value, the
\* latest: the filter the earlier pass computed from the older value is not
\* the one in place.
C18_LatestValueWins ==
  \A p, q \in PassIds :
    ( /\ p # q /\ Clean
      /\ passes[p].pc = "done" /\ passes[q].pc = "done"
      /\ Resolved(passes[p]) /\ Resolved(passes[q])
      /\ passes[p].field = passes[q].field
      /\ value[passes[p].field] # Empty ) =>
      \A i \in 1..Len(cascadeMap) :
        cascadeMap[i].k = passes[p].field =>
          \A e \in Range(SequentialOptions(i)) : SameOptions(filtered[e.k], e.v)

=============================================================================
